---------------------------- MODULE Spec2Model ----------------------------
(***************************************************************************)
(* Model of the WSAA ticket-acquisition client of remitos_backend          *)
(* (src/api_afip/afip_client.py, class AFIPServiceClient) and of its       *)
(* caller in src/app/services/afip_service.py.                             *)
(*                                                                         *)
(* Time is counted in whole hours.  `clock` is the UTC instant; the host's *)
(* naive local clock (datetime.now()) reads clock + tz_host.  A timestamp  *)
(* of a response is the text it carries: a wall-clock reading and the UTC  *)
(* offset written after it; the instant it denotes is wall - off.          *)
(***************************************************************************)
EXTENDS Integers, Sequences, FiniteSets, TLC

VARIABLES
    clock,          \* UTC instant (hours)
    tz_host,        \* UTC offset of the host's local time zone (hours)
    tickets_cache,  \* self.tickets_cache: servicio -> ticket_data
    pc,             \* position of each caller inside obtener_ticket_acceso
    servicio,       \* argument of the call in progress
    firmas,         \* openssl cms -sign runs made by the call in progress
    posts,          \* requests.post calls made by the call in progress
    respuesta,      \* what the POST of the call in progress came back with
    resultado,      \* what the call returned or raised
    visto,          \* the cache entry for `servicio` when the call was made
    cms_data,       \* the service of the request inside the CMS firmar_tra returned
    archivos,       \* working directory: LoginTicketRequest.xml and .xml.cms
    almacen,        \* key store: the certificate and private key files exist
    cl,             \* the calls made to _manejar_error_soap, oldest first
    tra,            \* a call of generar_tra: its arguments and what it built
    remitos,        \* the remitos table: id -> row
    ultimo,         \* the last HTTP request handled and its response
    cola,           \* the Celery tasks enqueued and not yet run
    hilos,          \* workers inside RemitoService.enviar_remito_afip
    lote            \* a run of the task enviar_lote_remitos_afip

\* the state of the remitos application
app == <<remitos, ultimo, cola, hilos, lote>>

\* the variables the steps of obtener_ticket_acceso below never change: the
\* files of the signing step, the two functions studied on their own and
\* the remitos application
aparte == <<cms_data, archivos, almacen, cl, tra,
            remitos, ultimo, cola, hilos, lote>>

vars == <<clock, tz_host, tickets_cache, pc, servicio, firmas, posts,
          respuesta, resultado, visto, cms_data, archivos, almacen, cl, tra,
          remitos, ultimo, cola, hilos, lote>>

---------------------------------------------------------------------------
(* Bounds of the model *)

MaxClock == 2

HostOffsets == {-3, 0}

Callers == {"c1"}

---------------------------------------------------------------------------
(* Static data of AFIPServiceClient *)

SERVICIOS == {"wslsp", "mtxca", "remcarneservice"}

ServicioNombre(s) ==
    CASE s = "wslsp" -> "Web Service de Liquidacion Sector Pecuario"
      [] s = "mtxca" -> "Factura Electronica Web Service"
      [] s = "remcarneservice" -> "Webservice Remitos Electronicos Carnicos"
      [] OTHER -> ""

ambiente == "testing"

MinLenServicio == 3

MaxLenServicio == 32

\* service ids the callers ask for: two of the catalog, and three outside it
\* (2 characters, 33 characters, a well-formed id the catalog lacks)
ServiciosPedidos ==
    {"wslsp", "remcarneservice", "ab",
     "a12345678901234567890123456789012", "wsfe"}

errores_sin_reintento ==
    {"coe.notAuthorized", "coe.alreadyAuthenticated", "cms.cert.expired",
     "cms.cert.invalid", "cms.cert.untrusted", "xml.source.invalid",
     "xml.destination.invalid", "xml.version.notSupported", "wsn.notFound"}

errores_con_espera ==
    {"cms.bad", "cms.bad.base64", "cms.cert.notFound", "cms.sign.invalid",
     "xml.bad", "xml.generationTime.invalid", "xml.expirationTime.expired",
     "xml.expirationTime.invalid", "wsn.unavailable", "wsaa.unavailable",
     "wsaa.internalError"}

\* Variant: wsn.notFound is retried like a temporary error.
ManejarErrorSoap_WsnNotFoundReintenta(error_code) ==
    IF error_code \in errores_sin_reintento \ {"wsn.notFound"} THEN FALSE
    ELSE IF error_code \in errores_con_espera THEN TRUE
    ELSE TRUE

\* Variant: a code in neither list is not retried.
ManejarErrorSoap_DesconocidoNoReintenta(error_code) ==
    IF error_code \in errores_sin_reintento THEN FALSE
    ELSE IF error_code \in errores_con_espera THEN TRUE
    ELSE FALSE

\* _manejar_error_soap: TRUE means "retry after 60 seconds"
ManejarErrorSoap(error_code) ==
    IF error_code \in errores_sin_reintento THEN FALSE
    ELSE IF error_code \in errores_con_espera THEN TRUE
    ELSE TRUE

\* the line _manejar_error_soap prints before it returns
AvisoErrorSoap(error_code) ==
    IF error_code \in errores_sin_reintento THEN "NO reintentar"
    ELSE IF error_code \in errores_con_espera THEN "Esperar 60 segundos"
    ELSE "Codigo de error no reconocido"

---------------------------------------------------------------------------
(* Timestamps *)

OffsetAFIP == -3

Ts(w, o) == [fmt |-> "iso", wall |-> w, off |-> o]

TsBad == [fmt |-> "bad", wall |-> 0, off |-> 0]

\* the instant a timestamp text denotes
Instante(ts) == ts.wall - ts.off

\* datetime.now(): the host's naive local reading
Ahora == clock + tz_host

\* datetime.fromisoformat(text.replace('T', ' ').replace('-03:00', '')):
\* the offset is removed only when it is written -03:00, which leaves a naive
\* datetime; any other offset stays and yields an aware one
ParsearFecha(ts) ==
    IF ts.fmt # "iso" THEN [ok |-> FALSE, aware |-> FALSE, wall |-> 0]
    ELSE [ok |-> TRUE, aware |-> ts.off # OffsetAFIP, wall |-> ts.wall]

---------------------------------------------------------------------------
(* Tickets and results *)

NingunTicket ==
    [token |-> "", sign |-> "", expiration |-> TsBad, generation |-> TsBad,
     unique_id |-> "", service |-> "", service_name |-> "",
     environment |-> "", generated_at |-> 0]

Falla(error, diag) ==
    [ok |-> FALSE, ticket |-> NingunTicket, error |-> error,
     codigo |-> "", desc |-> "", reintento |-> "", diag |-> diag]

FallaSoap(temporal, codigo, desc) ==
    [ok |-> FALSE, ticket |-> NingunTicket,
     error |-> IF temporal THEN "Error SOAP temporal"
               ELSE "Error SOAP permanente",
     codigo |-> codigo, desc |-> desc,
     reintento |-> IF temporal THEN "temporal" ELSE "permanente",
     diag |-> ""]

Exito(ticket) ==
    [ok |-> TRUE, ticket |-> ticket, error |-> "", codigo |-> "",
     desc |-> "", reintento |-> "", diag |-> "valido"]

SinResultado == Falla("", "")

---------------------------------------------------------------------------
(* Responses of the authority, as the client reads them *)

\* The decoded loginTicketResponse document.
\*   xml          the text parses as XML
\*   ltr          where the loginTicketResponse element is: "root" (it is the
\*                document element), "nested" (below it) or "absent"
\*   header       the header element is present
\*   falta        the header field that is missing, or "none"
\*   gen, exp     the texts of generationTime and expirationTime
\*   credentials  the credentials element is present
\*   token, sign  "absent" (no element), "" (empty element) or the text
PayloadBueno(ahora) ==
    [xml |-> TRUE, ltr |-> "nested", header |-> TRUE, falta |-> "none",
     gen |-> Ts(ahora, OffsetAFIP), exp |-> Ts(ahora + 1, OffsetAFIP),
     unique_id |-> "uid", credentials |-> TRUE,
     token |-> "tok", sign |-> "sig"]

CamposHeader ==
    {"source", "destination", "uniqueId", "generationTime", "expirationTime"}

\* timestamp texts around the host's reading, written with AFIP's offset or
\* as UTC, and one that is no timestamp
GenCerca(ahora) ==
    {Ts(w, o) : w \in ahora..(ahora + 1), o \in {OffsetAFIP, 0}} \cup {TsBad}

ExpCerca(ahora) ==
    {Ts(w, o) : w \in (ahora - 1)..(ahora + 1), o \in {OffsetAFIP, 0}}
        \cup {TsBad}

\* the credentials block: missing, without token or sign, with an empty one
CredencialesMalas ==
    {[credentials |-> FALSE, token |-> "absent", sign |-> "absent"],
     [credentials |-> TRUE, token |-> "absent", sign |-> "sig"],
     [credentials |-> TRUE, token |-> "tok", sign |-> "absent"],
     [credentials |-> TRUE, token |-> "", sign |-> "sig"],
     [credentials |-> TRUE, token |-> "tok", sign |-> ""]}

\* the dates such a document may carry: valid, expired, generated in the
\* future, unreadable
FechasDeMalas(ahora) ==
    {<<Ts(ahora, OffsetAFIP), Ts(ahora + 1, OffsetAFIP)>>,
     <<Ts(ahora, OffsetAFIP), Ts(ahora - 1, OffsetAFIP)>>,
     <<Ts(ahora + 1, OffsetAFIP), Ts(ahora + 1, OffsetAFIP)>>,
     <<TsBad, Ts(ahora + 1, OffsetAFIP)>>}

Payloads(ahora) ==
    {[PayloadBueno(ahora) EXCEPT !.xml = FALSE]}
    \cup {[PayloadBueno(ahora) EXCEPT !.ltr = l] : l \in {"absent", "root"}}
    \cup {[PayloadBueno(ahora) EXCEPT !.header = FALSE]}
    \cup {[PayloadBueno(ahora) EXCEPT !.falta = f] : f \in CamposHeader}
    \cup {[PayloadBueno(ahora) EXCEPT !.gen = g, !.exp = e] :
             g \in GenCerca(ahora), e \in ExpCerca(ahora)}
    \cup {[PayloadBueno(ahora) EXCEPT !.gen = f[1], !.exp = f[2],
              !.credentials = c.credentials, !.token = c.token,
              !.sign = c.sign] :
             f \in FechasDeMalas(ahora), c \in CredencialesMalas}

\* The HTTP exchange.
\*   transporte   "ok", or the requests exception: "timeout", "conexion",
\*                "otro"
\*   status       HTTP status code
\*   xml          the body parses as XML
\*   fault        "none"; "ns": a Fault element in the SOAP 1.2 namespace;
\*                "bare": a Fault element outside that namespace
\*   faultcode, faultstring   the texts of the Fault's children of these
\*                names, or "absent"
\*   lcr          the loginCmsReturn element is present
\*   b64          its text decodes as base64 / UTF-8
RespuestaBuena(ahora) ==
    [transporte |-> "ok", status |-> 200, xml |-> TRUE, fault |-> "none",
     faultcode |-> "absent", faultstring |-> "absent", lcr |-> TRUE,
     b64 |-> TRUE, payload |-> PayloadBueno(ahora)]

SinRespuesta == [RespuestaBuena(0) EXCEPT !.transporte = "none"]

CodigosFault == {"coe.notAuthorized", "wsaa.internalError",
                 "totally.unknown.code"}

Respuestas(ahora) ==
    LET b == RespuestaBuena(ahora) IN
    {[b EXCEPT !.transporte = t] : t \in {"timeout", "conexion", "otro"}}
    \cup {[b EXCEPT !.status = 500, !.fault = k, !.faultcode = c,
              !.faultstring = "desc", !.lcr = FALSE] :
             k \in {"ns", "bare"}, c \in CodigosFault}
    \cup {[b EXCEPT !.status = st, !.xml = FALSE] : st \in {200, 500, 404}}
    \cup {[b EXCEPT !.fault = k, !.faultcode = c, !.faultstring = d,
              !.lcr = FALSE] :
             k \in {"ns", "bare"}, c \in CodigosFault \cup {"absent"},
             d \in {"absent", "desc"}}
    \cup {[b EXCEPT !.lcr = FALSE], [b EXCEPT !.b64 = FALSE]}
    \cup {[b EXCEPT !.payload = q] : q \in Payloads(ahora)}

---------------------------------------------------------------------------
(* _validar_respuesta_wsaa: the ticket data, or None with the diagnostic  *)
(* the method prints                                                       *)

Valido(t) == [ticket |-> t, diag |-> "valido"]

Invalido(diag) == [ticket |-> NingunTicket, diag |-> diag]

\* the try block around the two dates (lines 246-265)
ValidarFechas(gen, exp, ahora) ==
    LET g == ParsearFecha(gen)
        e == ParsearFecha(exp)
    IN  IF ~g.ok \/ ~e.ok THEN "fechas_invalidas"
        ELSE IF e.aware THEN "fechas_invalidas"    \* TypeError: aware < naive
        ELSE IF e.wall < ahora THEN "expirado"
        ELSE IF g.aware THEN "fechas_invalidas"    \* TypeError: aware > naive
        ELSE IF g.wall > ahora THEN "generacion_futura"
        ELSE "valido"

ValidarRespuestaWsaa(q, ahora) ==
    IF ~q.xml THEN Invalido("xml_invalido")
    ELSE IF q.ltr # "nested" THEN Invalido("sin_loginTicketResponse")
    ELSE IF ~q.header THEN Invalido("sin_header")
    ELSE IF q.falta # "none" THEN Invalido("header_incompleto")
    ELSE IF ValidarFechas(q.gen, q.exp, ahora) # "valido"
         THEN Invalido(ValidarFechas(q.gen, q.exp, ahora))
    ELSE IF ~q.credentials THEN Invalido("sin_credentials")
    ELSE IF q.token = "absent" \/ q.sign = "absent"
         THEN Invalido("sin_token_o_sign")
    ELSE IF q.token = "" \/ q.sign = "" THEN Invalido("token_o_sign_vacio")
    ELSE Valido([NingunTicket EXCEPT !.token = q.token, !.sign = q.sign,
                    !.expiration = q.exp, !.generation = q.gen,
                    !.unique_id = q.unique_id])

---------------------------------------------------------------------------
(* _procesar_respuesta_wsaa *)

\* lines 677-686: the Fault element the two lookups find and what is read
\* from it.  The second lookup, './/faultstring', yields the faultstring
\* element itself, which has no faultcode child.
FaultHallado(r) ==
    IF r.fault = "ns"
    THEN [hay |-> TRUE,
          codigo |-> IF r.faultcode # "absent" THEN r.faultcode
                     ELSE "unknown",
          desc |-> IF r.faultstring # "absent" THEN r.faultstring ELSE ""]
    ELSE IF r.fault = "bare" /\ r.faultstring # "absent"
    THEN [hay |-> TRUE, codigo |-> "unknown", desc |-> r.faultstring]
    ELSE [hay |-> FALSE, codigo |-> "", desc |-> ""]

ProcesarRespuestaWsaa(r, s, ahora) ==
    IF ~r.xml THEN Falla("ParseError", "")
    ELSE IF FaultHallado(r).hay
    THEN FallaSoap(ManejarErrorSoap(FaultHallado(r).codigo),
                   FaultHallado(r).codigo, FaultHallado(r).desc)
    ELSE IF ~r.lcr THEN Falla("No se encontro loginCmsReturn", "")
    ELSE IF ~r.b64 THEN Falla("base64", "")
    ELSE LET v == ValidarRespuestaWsaa(r.payload, ahora) IN
         IF v.diag # "valido"
         THEN Falla("Error validando respuesta del WSAA", v.diag)
         ELSE Exito([v.ticket EXCEPT !.service = s,
                        !.service_name = ServicioNombre(s),
                        !.environment = ambiente,
                        !.generated_at = ahora])

\* _enviar_wsaa after requests.post has returned or raised (lines 639-666)
RecibirWsaa(r, s, ahora) ==
    IF r.transporte = "timeout" THEN Falla("Timeout al conectar con WSAA", "")
    ELSE IF r.transporte = "conexion"
    THEN Falla("Error de conexion con WSAA", "")
    ELSE IF r.transporte # "ok" THEN Falla("Error en request HTTP", "")
    ELSE IF r.status >= 400
    THEN IF r.status = 500 THEN Falla("Error SOAP del servidor AFIP", "")
         ELSE Falla("Error HTTP", "")
    ELSE ProcesarRespuestaWsaa(r, s, ahora)

\* _validar_ticket: raises only for a missing or empty required field
ValidarTicket(res) ==
    IF res.ok /\ (res.ticket.token = "" \/ res.ticket.sign = ""
                  \/ res.ticket.expiration = TsBad \/ res.ticket.service = "")
    THEN Falla("Campo requerido faltante o vacio", "")
    ELSE res

\* Variant: the except clause also drops the service's entry on a failure.
GuardarEnCache_InvalidaAlFallar(cache, s, res) ==
    IF res.ok
    THEN [k \in DOMAIN cache \cup {s} |->
             IF k = s THEN res.ticket ELSE cache[k]]
    ELSE [k \in DOMAIN cache \ {s} |-> cache[k]]

\* Variant: an entry that expires later than the new ticket is kept.
GuardarEnCache_ConservaMasLargo(cache, s, res) ==
    IF res.ok /\ ~(s \in DOMAIN cache
                   /\ cache[s].expiration.wall > res.ticket.expiration.wall)
    THEN [k \in DOMAIN cache \cup {s} |->
             IF k = s THEN res.ticket ELSE cache[k]]
    ELSE cache

\* Variant: an existing entry is updated in place, the token first, and the
\* other fields are left for a later statement.
GuardarEnCache_CampoPorCampo(cache, s, res) ==
    IF res.ok
    THEN [k \in DOMAIN cache \cup {s} |->
             IF k # s THEN cache[k]
             ELSE IF s \in DOMAIN cache
             THEN [cache[s] EXCEPT !.token = res.ticket.token]
             ELSE res.ticket]
    ELSE cache

\* self.tickets_cache[servicio] = ticket_data, reached only on success
GuardarEnCache(cache, s, res) ==
    IF res.ok
    THEN [k \in DOMAIN cache \cup {s} |->
             IF k = s THEN res.ticket ELSE cache[k]]
    ELSE cache

\* what a read of self.tickets_cache for a service yields
LeerCache(cache, s) == IF s \in DOMAIN cache THEN cache[s] ELSE NingunTicket

\* Variant: a fault classified as temporary sends the request again.
DespuesDeRecibir_Reintenta(res) ==
    IF res.reintento = "temporal" THEN "paso4" ELSE "done"

\* the except clause of obtener_ticket_acceso re-raises: the call is over
DespuesDeRecibir(res) == "done"

---------------------------------------------------------------------------
(* The working directory, the key store and the ticket request *)

\* firmar_tra has returned no CMS to the call yet
SinCms == "ninguno"

\* a file of the working directory that does not exist
Ausente == "ausente"

\* neither LoginTicketRequest.xml nor LoginTicketRequest.xml.cms exists; a
\* file that exists holds the service of the ticket request written in it
DirectorioVacio == [tra |-> Ausente, cms |-> Ausente]

\* _validar_certificados passed at construction: both files were there
AlmacenCompleto == [cert |-> TRUE, key |-> TRUE]

\* the cap on the validity of a ticket request, in hours
MaxHorasValidez == 24

\* Variant: the requested hours are used as they come.
HorasEfectivas_SinTope(h) == h

\* if horas_validez > 24: horas_validez = 24
HorasEfectivas(h) == IF h > MaxHorasValidez THEN MaxHorasValidez ELSE h

\* generar_tra has not been called
\* an openssl x509 run that printed the subject
X509Ok == [fin |-> "ok", prefijo |-> "subject=",
           resto |-> "CN=empresa,O=ACME,C=AR"]

\* `ms`, `x509`, `zona`, `ahora` and `expiracion` are what the call read and
\* computed; the other fields are the document and the value returned
SinTra == [estado |-> "sin_llamar", servicio |-> "", horas |-> 0,
           ms |-> <<0, 0>>, x509 |-> X509Ok, zona |-> 0,
           ahora |-> 0, expiracion |-> 0,
           source |-> "", destination |-> "", uniqueId |-> <<0, 0>>,
           generationTime |-> TsBad, expirationTime |-> TsBad,
           service |-> "", retorno |-> <<0, 0>>]

\* Variant: the text after the first eight characters is returned whatever
\* the output starts with.
ExtraerSubjectDn_SinMirarPrefijo(sal) ==
    IF sal.fin # "ok" THEN "" ELSE sal.resto

\* _extraer_subject_dn: the subject printed by openssl x509 after "subject=",
\* or None (written "") on any error or unexpected output
ExtraerSubjectDn(sal) ==
    IF sal.fin # "ok" THEN ""
    ELSE IF sal.prefijo = "subject=" THEN sal.resto
    ELSE ""

\* destination_dn[self.ambiente]
DestinationDn(amb) ==
    IF amb = "production"
    THEN "cn=wsaa,o=afip,c=ar,serialNumber=CUIT 33693450239"
    ELSE "cn=wsaahomo,o=afip,c=ar,serialNumber=CUIT 33693450239"

\* 2^16: a number n of up to 47 bits is written <<n \div 2^16, n % 2^16>>
Base == 65536

\* Variant: the epoch reading is used without the remainder.
UniqueId_SinModulo(ms) == ms

\* int(datetime.now().timestamp() * 1000) % (2**32), on the two-part form of
\* the epoch reading in milliseconds: n % 2^32 keeps the low part and the
\* remainder of the high part modulo 2^16
UniqueId(ms) == <<ms[1] % Base, ms[2]>>

\* generar_tra(servicio, horas_validez) when the host's clock reads `ahora`
\* in a zone `zona` hours from UTC, its epoch time is `ms` milliseconds and
\* openssl x509 ends with `sal`: the ValueError it raises, or the request
\* document with the unique id it returns next to it. `source` is "" when
\* the element is left out.
ConstruirTra(s, h, sal, ms, ahora, zona) ==
    IF s \notin SERVICIOS
    THEN [SinTra EXCEPT !.estado = "Servicio no valido",
                        !.servicio = s, !.horas = h]
    ELSE IF ~(MinLenServicio <= Len(s) /\ Len(s) <= MaxLenServicio)
    THEN [SinTra EXCEPT !.estado = "Servicio debe tener entre 3 y 32",
                        !.servicio = s, !.horas = h]
    ELSE [estado |-> "hecho", servicio |-> s, horas |-> h,
          ms |-> ms, x509 |-> sal, zona |-> zona,
          ahora |-> ahora, expiracion |-> ahora + HorasEfectivas(h),
          source |-> ExtraerSubjectDn(sal),
          destination |-> DestinationDn(ambiente),
          uniqueId |-> UniqueId(ms),
          generationTime |-> Ts(ahora, OffsetAFIP),
          expirationTime |-> Ts(ahora + HorasEfectivas(h), OffsetAFIP),
          service |-> s, retorno |-> UniqueId(ms)]

---------------------------------------------------------------------------
(* The remitos application at rest *)

\* no HTTP request has been handled
SinPedido == [op |-> "ninguna", cred |-> "", id |-> 0, cuit |-> "",
              status |-> 0, afip |-> FALSE]

\* the task enviar_lote_remitos_afip has not run
SinLote == [estado |-> "sin_correr", ids |-> << >>, procesados |-> << >>,
            resultados |-> << >>, errores |-> << >>,
            total |-> 0, success_count |-> 0, error_count |-> 0]

\* an empty table, no request, no task and no worker
AppEnReposo ==
    /\ remitos = << >>
    /\ ultimo = SinPedido
    /\ cola = {}
    /\ hilos = << >>
    /\ lote = SinLote

---------------------------------------------------------------------------
(* The steps of obtener_ticket_acceso *)

Init ==
    /\ clock = 0
    /\ tz_host \in HostOffsets
    /\ tickets_cache = << >>
    /\ pc = [p \in Callers |-> "idle"]
    /\ servicio = [p \in Callers |-> ""]
    /\ firmas = [p \in Callers |-> 0]
    /\ posts = [p \in Callers |-> 0]
    /\ respuesta = [p \in Callers |-> SinRespuesta]
    /\ resultado = [p \in Callers |-> SinResultado]
    /\ visto = [p \in Callers |-> NingunTicket]
    /\ cms_data = [p \in Callers |-> SinCms]
    /\ archivos = DirectorioVacio
    /\ almacen = AlmacenCompleto
    /\ cl = << >>
    /\ tra = SinTra
    /\ AppEnReposo

\* lines 504-507: the banner reads self.SERVICIOS[servicio]['nombre'] before
\* the try block
Llamar(p, s) ==
    /\ pc[p] \in {"idle", "done"}
    /\ servicio' = [servicio EXCEPT ![p] = s]
    /\ firmas' = [firmas EXCEPT ![p] = 0]
    /\ posts' = [posts EXCEPT ![p] = 0]
    /\ respuesta' = [respuesta EXCEPT ![p] = SinRespuesta]
    /\ visto' = [visto EXCEPT ![p] = LeerCache(tickets_cache, s)]
    /\ IF s \in SERVICIOS
       THEN /\ pc' = [pc EXCEPT ![p] = "paso1"]
            /\ resultado' = [resultado EXCEPT ![p] = SinResultado]
       ELSE /\ pc' = [pc EXCEPT ![p] = "done"]
            /\ resultado' = [resultado EXCEPT ![p] = Falla("KeyError", "")]
    /\ UNCHANGED <<clock, tz_host, tickets_cache>>
    /\ UNCHANGED aparte

\* generar_tra, lines 323-328
GenerarTra(p) ==
    /\ pc[p] = "paso1"
    /\ IF servicio[p] \notin SERVICIOS
       THEN /\ pc' = [pc EXCEPT ![p] = "done"]
            /\ resultado' = [resultado EXCEPT
                                ![p] = Falla("Servicio no valido", "")]
       ELSE IF ~(MinLenServicio <= Len(servicio[p])
                 /\ Len(servicio[p]) <= MaxLenServicio)
       THEN /\ pc' = [pc EXCEPT ![p] = "done"]
            /\ resultado' = [resultado EXCEPT
                                ![p] = Falla("Servicio debe tener entre 3 y 32", "")]
       ELSE /\ pc' = [pc EXCEPT ![p] = "paso2"]
            /\ UNCHANGED resultado
    /\ UNCHANGED <<clock, tz_host, tickets_cache, servicio, firmas, posts,
                   respuesta, visto>>
    /\ UNCHANGED aparte

ResultadosOpenssl == {"ok", "CalledProcessError", "FileNotFoundError",
                      "sin_cms"}

\* firmar_tra and the base64 encoding of step 3
FirmarTra(p, o) ==
    /\ pc[p] = "paso2"
    /\ firmas' = [firmas EXCEPT ![p] = @ + 1]
    /\ IF o = "ok"
       THEN /\ pc' = [pc EXCEPT ![p] = "paso4"]
            /\ UNCHANGED resultado
       ELSE /\ pc' = [pc EXCEPT ![p] = "done"]
            /\ resultado' = [resultado EXCEPT ![p] =
                   Falla(CASE o = "CalledProcessError" -> "Error al generar CMS"
                           [] o = "FileNotFoundError" -> "OpenSSL no disponible"
                           [] OTHER -> "No se genero el archivo CMS", "")]
    /\ UNCHANGED <<clock, tz_host, tickets_cache, servicio, posts, respuesta,
                   visto>>
    /\ UNCHANGED aparte

\* Variant: the client holds one lock around the network call, so a request
\* leaves only while no other call is waiting for its answer.
EnviarWsaa_ConCerrojo(p) ==
    /\ pc[p] = "paso4"
    /\ \A q \in DOMAIN pc : q # p => pc[q] # "esperando"
    /\ posts' = [posts EXCEPT ![p] = @ + 1]
    /\ pc' = [pc EXCEPT ![p] = "esperando"]
    /\ UNCHANGED <<clock, tz_host, tickets_cache, servicio, firmas, respuesta,
                   resultado, visto>>
    /\ UNCHANGED aparte

\* _enviar_wsaa up to requests.post: the request leaves
EnviarWsaa(p) ==
    /\ pc[p] = "paso4"
    /\ posts' = [posts EXCEPT ![p] = @ + 1]
    /\ pc' = [pc EXCEPT ![p] = "esperando"]
    /\ UNCHANGED <<clock, tz_host, tickets_cache, servicio, firmas, respuesta,
                   resultado, visto>>
    /\ UNCHANGED aparte

\* requests.post returns or raises; the rest of _enviar_wsaa, then steps 5
\* and the cache write of obtener_ticket_acceso
RecibirRespuesta(p, r) ==
    /\ pc[p] = "esperando"
    /\ LET res == ValidarTicket(RecibirWsaa(r, servicio[p], Ahora)) IN
        /\ resultado' = [resultado EXCEPT ![p] = res]
        /\ tickets_cache' = GuardarEnCache(tickets_cache, servicio[p], res)
        /\ pc' = [pc EXCEPT ![p] = DespuesDeRecibir(res)]
    /\ respuesta' = [respuesta EXCEPT ![p] = r]
    /\ UNCHANGED <<clock, tz_host, servicio, firmas, posts, visto>>
    /\ UNCHANGED aparte

\* an hour passes
Tick ==
    /\ clock < MaxClock
    /\ clock' = clock + 1
    /\ UNCHANGED <<tz_host, tickets_cache, pc, servicio, firmas, posts,
                   respuesta, resultado, visto>>
    /\ UNCHANGED aparte

Next ==
    \/ \E p \in Callers, s \in ServiciosPedidos : Llamar(p, s)
    \/ \E p \in Callers : GenerarTra(p)
    \/ \E p \in Callers, o \in ResultadosOpenssl : FirmarTra(p, o)
    \/ \E p \in Callers : EnviarWsaa(p)
    \/ \E p \in Callers, r \in Respuestas(Ahora) : RecibirRespuesta(p, r)
    \/ Tick

Spec == Init /\ [][Next]_vars

---------------------------------------------------------------------------
(* Properties *)

\* the validator received the decoded payload of response r
LlegoAlValidador(r) ==
    /\ r.transporte = "ok" /\ r.status = 200 /\ r.xml
    /\ r.fault = "none" /\ r.lcr /\ r.b64

\* the verdict of the Error Classifier for a fault code, as the caller sees it
Veredicto(codigo) == IF ManejarErrorSoap(codigo) THEN "temporal" ELSE "permanente"

\* the call of p left the cache entry of its service as it found it
CacheIntacto(p) == LeerCache(tickets_cache, servicio[p]) = visto[p]

\* ticket t passed the two checks as instants, at the instant it was validated
\* (generated_at is the host's reading taken right after the validation)
ValidadoComoInstantes(t) ==
    /\ t.generation.fmt = "iso" /\ t.expiration.fmt = "iso"
    /\ Instante(t.generation) <= t.generated_at - tz_host
    /\ Instante(t.expiration) >= t.generated_at - tz_host

\* C1: every ticket returned to a caller or stored in the cache had, when it
\* was validated, generationTime <= now <= expirationTime as instants (the
\* UTC offset written in the timestamps counted), and readable timestamps.
C1_TicketsValidatedAsInstants ==
    /\ \A p \in Callers :
          resultado[p].ok => ValidadoComoInstantes(resultado[p].ticket)
    /\ \A s \in DOMAIN tickets_cache : ValidadoComoInstantes(tickets_cache[s])

\* the diagnostics of _validar_respuesta_wsaa that say a required element is
\* missing or empty
DiagIncompleteTicket ==
    {"sin_header", "header_incompleto", "sin_credentials",
     "sin_token_o_sign", "token_o_sign_vacio"}

SinTokenOSign(q) ==
    \/ ~q.credentials
    \/ q.token \in {"absent", ""}
    \/ q.sign \in {"absent", ""}

\* C2: a decoded payload without credentials/token or credentials/signature
\* (absent or empty) is reported as IncompleteTicket whatever its timestamps
\* are, and no ticket is returned or cached.
C2_MissingCredentialsIsIncompleteTicket ==
    \A p \in Callers :
        (/\ pc[p] = "done"
         /\ LlegoAlValidador(respuesta[p])
         /\ respuesta[p].payload.xml
         /\ SinTokenOSign(respuesta[p].payload))
        => (/\ ~resultado[p].ok
            /\ resultado[p].diag \in DiagIncompleteTicket
            /\ CacheIntacto(p))

\* C3: a response with a fault element, namespaced or bare, fails with that
\* response's own fault code and description and with the classifier's
\* verdict for that code; no ticket is returned or cached.
C3_FaultVerdictPropagated ==
    \A p \in Callers :
        (/\ pc[p] = "done"
         /\ respuesta[p].transporte = "ok" /\ respuesta[p].status = 200
         /\ respuesta[p].xml
         /\ respuesta[p].fault \in {"ns", "bare"}
         /\ respuesta[p].faultcode # "absent"
         /\ respuesta[p].faultstring # "absent")
        => (/\ ~resultado[p].ok
            /\ resultado[p].codigo = respuesta[p].faultcode
            /\ resultado[p].desc = respuesta[p].faultstring
            /\ resultado[p].reintento = Veredicto(respuesta[p].faultcode)
            /\ CacheIntacto(p))

\* C4: an HTTP 500 whose body carries a fault is handed to the response
\* processing: the caller's failure is the classified fault of that body.
C4_Http500FaultForwarded ==
    \A p \in Callers :
        (/\ pc[p] = "done"
         /\ respuesta[p].transporte = "ok" /\ respuesta[p].status = 500
         /\ respuesta[p].xml
         /\ respuesta[p].fault # "none")
        => resultado[p] = ProcesarRespuestaWsaa(respuesta[p], servicio[p], Ahora)

\* C5: a call that fails, at whatever stage, leaves the ticket cache as it
\* was: the only step that changes the cache is the last step of a call
\* that succeeds.
C5_FailureLeavesCache ==
    [][tickets_cache' # tickets_cache =>
          \E p \in Callers :
              pc[p] = "esperando" /\ pc'[p] = "done" /\ resultado'[p].ok]_vars

\* a call has failed and the entry cached for its service is still there
C5_Witness ==
    \E p \in Callers :
        /\ pc[p] = "done" /\ ~resultado[p].ok /\ posts[p] = 1
        /\ visto[p] # NingunTicket
        /\ servicio[p] \in DOMAIN tickets_cache
        /\ Cardinality(DOMAIN tickets_cache) = 2

\* C6: what a read of the cache hands out for a service is a ticket only
\* while now <= its expirationTime on the client's clock.
C6_CacheReadNeverExpired ==
    \A s \in SERVICIOS :
        LeerCache(tickets_cache, s) # NingunTicket
        => Ahora <= LeerCache(tickets_cache, s).expiration.wall

\* C7: a request for a service whose ticket t is cached and not expired
\* returns t and makes no POST.
C7_SecondRequestServedFromCache ==
    \A p \in Callers :
        (/\ pc[p] = "done"
         /\ visto[p] # NingunTicket
         /\ Ahora <= visto[p].expiration.wall)
        => (/\ resultado[p].ok
            /\ resultado[p].ticket = visto[p]
            /\ posts[p] = 0)

\* C8: the cache holds one ticket per service, each a ticket acquired for
\* that service; the last step of a successful call for s makes the entry of
\* s exactly the ticket returned, whatever was cached for s, and leaves the
\* entries of the other services as they were.
C8_SuccessReplacesEntry ==
    [][/\ \A s \in DOMAIN tickets_cache' :
             s \in SERVICIOS /\ tickets_cache'[s].service = s
       /\ \A p \in Callers :
             (pc[p] = "esperando" /\ pc'[p] = "done" /\ resultado'[p].ok)
             => (/\ servicio[p] \in DOMAIN tickets_cache'
                 /\ tickets_cache'[servicio[p]] = resultado'[p].ticket
                 /\ DOMAIN tickets_cache' =
                        DOMAIN tickets_cache \cup {servicio[p]}
                 /\ \A o \in DOMAIN tickets_cache \ {servicio[p]} :
                        tickets_cache'[o] = tickets_cache[o])]_vars

\* a successful call has replaced a ticket that expired later than the new
\* one, while another service has its own entry
C8_Witness ==
    \E p \in Callers :
        /\ pc[p] = "done" /\ resultado[p].ok
        /\ visto[p] # NingunTicket
        /\ visto[p].expiration.wall > resultado[p].ticket.expiration.wall
        /\ tickets_cache[servicio[p]] = resultado[p].ticket
        /\ Cardinality(DOMAIN tickets_cache) = 2

\* C9: a call makes at most one POST, whatever its outcome.
C9_AtMostOnePost == \A p \in Callers : posts[p] <= 1

\* a call has ended on a fault classified as temporary, after its one POST
C9_Witness ==
    \E p \in Callers :
        pc[p] = "done" /\ resultado[p].reintento = "temporal" /\ posts[p] = 1

\* the errors generar_tra raises for a service id it rejects
InvalidServiceId == {"Servicio no valido", "Servicio debe tener entre 3 y 32"}

\* C10: a service id that is not in the catalog, or whose length is outside
\* [3,32], makes the call fail with InvalidServiceId before any signing and
\* any POST.
C10_InvalidServiceIdBeforeSigning ==
    \A p \in Callers :
        (/\ pc[p] = "done"
         /\ \/ servicio[p] \notin SERVICIOS
            \/ Len(servicio[p]) < MinLenServicio
            \/ Len(servicio[p]) > MaxLenServicio)
        => (/\ ~resultado[p].ok
            /\ resultado[p].error \in InvalidServiceId
            /\ firmas[p] = 0 /\ posts[p] = 0)

---------------------------------------------------------------------------
(* _manejar_error_soap on its own: a sequence of calls *)

MaxClasificaciones == 2

\* the fault codes passed to the classifier: the twenty of the two lists, a
\* code of neither list, and the 'Unknown' the caller passes when the fault
\* has no faultcode element
CodigosClasificados ==
    errores_sin_reintento \cup errores_con_espera
        \cup {"totally.unknown.code", "Unknown"}

Descripciones == {"", "Certificate expired"}

InitClasificador == Init /\ tz_host = 0

\* one call _manejar_error_soap(error_code, error_description)
Clasificar(error_code, error_description) ==
    /\ Len(cl) < MaxClasificaciones
    /\ cl' = Append(cl, [codigo |-> error_code,
                         descripcion |-> error_description,
                         retorno |-> ManejarErrorSoap(error_code),
                         aviso |-> AvisoErrorSoap(error_code)])
    /\ UNCHANGED <<clock, tz_host, tickets_cache, pc, servicio, firmas, posts,
                   respuesta, resultado, visto, cms_data, archivos, almacen,
                   tra>>
    /\ UNCHANGED app

NextClasificador ==
    \E c \in CodigosClasificados, d \in Descripciones : Clasificar(c, d)

SpecClasificador == InitClasificador /\ [][NextClasificador]_vars

\* the two sets of fault codes as the specification lists them
NoRetrySet ==
    {"coe.notAuthorized", "coe.alreadyAuthenticated", "cms.cert.expired",
     "cms.cert.invalid", "cms.cert.untrusted", "xml.source.invalid",
     "xml.destination.invalid", "xml.version.notSupported", "wsn.notFound"}

RetryAfterDelaySet ==
    {"cms.bad", "cms.bad.base64", "cms.cert.notFound", "cms.sign.invalid",
     "xml.bad", "xml.generationTime.invalid", "xml.expirationTime.expired",
     "xml.expirationTime.invalid", "wsn.unavailable", "wsaa.unavailable",
     "wsaa.internalError"}

CodigoDesconocido(c) == c \notin NoRetrySet \cup RetryAfterDelaySet

\* C11: the classifier is a function of the fault code alone: every call
\* with a NoRetry code returned "do not retry" (False), every call with a
\* RetryAfterDelay code returned "retry after 60 seconds" (True), the two
\* lists of the code are disjoint, and two calls with the same code returned
\* the same verdict whatever their descriptions and whatever came before.
C11_ClassifierIsFunctionOfCode ==
    /\ errores_sin_reintento \cap errores_con_espera = {}
    /\ \A i \in 1..Len(cl) :
         /\ cl[i].codigo \in NoRetrySet =>
               cl[i].retorno = FALSE /\ cl[i].aviso = "NO reintentar"
         /\ cl[i].codigo \in RetryAfterDelaySet =>
               cl[i].retorno = TRUE /\ cl[i].aviso = "Esperar 60 segundos"
    /\ \A i, j \in 1..Len(cl) :
         cl[i].codigo = cl[j].codigo =>
             cl[i].retorno = cl[j].retorno /\ cl[i].aviso = cl[j].aviso

\* the same code was classified twice, with different descriptions
C11_Witness ==
    /\ Len(cl) = 2
    /\ cl[1].codigo = "wsn.notFound" /\ cl[2].codigo = "wsn.notFound"
    /\ cl[1].descripcion # cl[2].descripcion

---------------------------------------------------------------------------
(* Concurrent calls of obtener_ticket_acceso on one client, with the steps *)
(* of firmar_tra taken one at a time on the shared working directory       *)

Hilos == {"c1", "c2"}

ServiciosFirma == {"wslsp", "remcarneservice"}

\* what the openssl subprocess itself can do when its input files are there
SalidasOpenssl == {"ok", "CalledProcessError", "FileNotFoundError"}

\* two answers that carry different tickets, and a timeout
RespuestasFirma(ahora) ==
    LET b == RespuestaBuena(ahora) IN
    {b, [b EXCEPT !.payload.token = "tok2", !.payload.sign = "sig2"],
     [b EXCEPT !.transporte = "timeout"]}

InitFirma ==
    /\ clock = 0
    /\ tz_host = OffsetAFIP
    /\ tickets_cache = << >>
    /\ pc = [p \in Hilos |-> "idle"]
    /\ servicio = [p \in Hilos |-> ""]
    /\ firmas = [p \in Hilos |-> 0]
    /\ posts = [p \in Hilos |-> 0]
    /\ respuesta = [p \in Hilos |-> SinRespuesta]
    /\ resultado = [p \in Hilos |-> SinResultado]
    /\ visto = [p \in Hilos |-> NingunTicket]
    /\ cms_data = [p \in Hilos |-> SinCms]
    /\ archivos = DirectorioVacio
    /\ almacen = AlmacenCompleto
    /\ cl = << >>
    /\ tra = SinTra
    /\ AppEnReposo

\* firmar_tra, lines 417-420: the request is written to LoginTicketRequest.xml
EscribirTra(p) ==
    /\ pc[p] = "paso2"
    /\ archivos' = [archivos EXCEPT !.tra = servicio[p]]
    /\ pc' = [pc EXCEPT ![p] = "firmando"]
    /\ UNCHANGED <<clock, tz_host, tickets_cache, servicio, firmas, posts,
                   respuesta, resultado, visto, cms_data, almacen, cl, tra>>
    /\ UNCHANGED app

\* what subprocess.run(cmd, check=True) ends with: openssl reads the file
\* named -in, the certificate and the key as they are at that moment
SalidaOpenssl(o, dir, alm) ==
    IF o = "FileNotFoundError"
    THEN [fin |-> "FileNotFoundError", stderr |-> ""]
    ELSE IF dir.tra = Ausente
    THEN [fin |-> "CalledProcessError", stderr |-> "cannot open input file"]
    ELSE IF ~alm.cert
    THEN [fin |-> "CalledProcessError", stderr |-> "unable to load certificate"]
    ELSE IF ~alm.key
    THEN [fin |-> "CalledProcessError", stderr |-> "unable to load private key"]
    ELSE IF o = "CalledProcessError"
    THEN [fin |-> o, stderr |-> "private key does not match"]
    ELSE [fin |-> "ok", stderr |-> ""]

\* firmar_tra, lines 435-442 and the two except clauses (464-486): openssl
\* signs whatever LoginTicketRequest.xml holds into LoginTicketRequest.xml.cms
EjecutarOpenssl(p, o) ==
    /\ pc[p] = "firmando"
    /\ firmas' = [firmas EXCEPT ![p] = @ + 1]
    /\ LET sal == SalidaOpenssl(o, archivos, almacen) IN
       IF sal.fin = "ok"
       THEN /\ archivos' = [archivos EXCEPT !.cms = archivos.tra]
            /\ pc' = [pc EXCEPT ![p] = "leyendo"]
            /\ UNCHANGED resultado
       ELSE /\ pc' = [pc EXCEPT ![p] = "done"]
            /\ resultado' = [resultado EXCEPT ![p] =
                   IF sal.fin = "CalledProcessError"
                   THEN Falla("Error al generar CMS", sal.stderr)
                   ELSE Falla("OpenSSL no disponible", "")]
            /\ UNCHANGED archivos
    /\ UNCHANGED <<clock, tz_host, tickets_cache, servicio, posts, respuesta,
                   visto, cms_data, almacen, cl, tra>>
    /\ UNCHANGED app

\* firmar_tra, lines 444-462: the CMS file is read, LoginTicketRequest.xml is
\* removed, the CMS file is kept
LeerCms(p) ==
    /\ pc[p] = "leyendo"
    /\ IF archivos.cms = Ausente
       THEN /\ pc' = [pc EXCEPT ![p] = "done"]
            /\ resultado' = [resultado EXCEPT
                                ![p] = Falla("No se genero el archivo CMS", "")]
            /\ UNCHANGED <<cms_data, archivos>>
       ELSE /\ cms_data' = [cms_data EXCEPT ![p] = archivos.cms]
            /\ archivos' = [archivos EXCEPT !.tra = Ausente]
            /\ pc' = [pc EXCEPT ![p] = "paso4"]
            /\ UNCHANGED resultado
    /\ UNCHANGED <<clock, tz_host, tickets_cache, servicio, firmas, posts,
                   respuesta, visto, almacen, cl, tra>>
    /\ UNCHANGED app

\* the certificate or the key file disappears after the client was built,
\* while no call is running
QuitarArchivo(f) ==
    /\ almacen[f]
    /\ \A p \in Hilos : pc[p] = "idle"
    /\ almacen' = [almacen EXCEPT ![f] = FALSE]
    /\ UNCHANGED <<clock, tz_host, tickets_cache, pc, servicio, firmas, posts,
                   respuesta, resultado, visto, cms_data, archivos, cl, tra>>
    /\ UNCHANGED app

\* each thread makes one call
NextFirma ==
    \/ \E p \in Hilos, s \in ServiciosFirma : pc[p] = "idle" /\ Llamar(p, s)
    \/ \E p \in Hilos : GenerarTra(p)
    \/ \E p \in Hilos : EscribirTra(p)
    \/ \E p \in Hilos, o \in SalidasOpenssl : EjecutarOpenssl(p, o)
    \/ \E p \in Hilos : LeerCms(p)
    \/ \E p \in Hilos : EnviarWsaa(p)
    \/ \E p \in Hilos, r \in RespuestasFirma(Ahora) : RecibirRespuesta(p, r)
    \/ \E f \in {"cert", "key"} : QuitarArchivo(f)

SpecFirma == InitFirma /\ [][NextFirma]_vars

\* C13: when calls for different services run concurrently, the CMS that a
\* call holds and posts wraps the ticket request that this same call built
\* (its service field is the call's service), and no call finds its request
\* file gone because another call removed it.
C13_EnvelopeWrapsOwnRequest ==
    \A p \in Hilos :
        /\ pc[p] \in {"paso4", "esperando"} => cms_data[p] = servicio[p]
        /\ resultado[p].diag # "cannot open input file"

\* C14: with concurrent calls for the same service, the cache entry of the
\* service is at every instant absent or one complete ticket: the ticket
\* that one of the calls returned, never a mixture of two acquisitions.
C14_CacheEntryIsOneTicket ==
    \A s \in DOMAIN tickets_cache :
        \E p \in Hilos :
            /\ pc[p] = "done" /\ servicio[p] = s /\ resultado[p].ok
            /\ tickets_cache[s] = resultado[p].ticket

\* two calls for the same service both succeeded, with different tickets
C14_Witness ==
    /\ pc["c1"] = "done" /\ pc["c2"] = "done"
    /\ servicio["c1"] = servicio["c2"]
    /\ resultado["c1"].ok /\ resultado["c2"].ok
    /\ resultado["c1"].ticket.token # resultado["c2"].ticket.token
    /\ servicio["c1"] \in DOMAIN tickets_cache

\* the next step of thread q can be taken
PuedeSeguir(q) ==
    /\ pc[q] = "paso1" => ENABLED GenerarTra(q)
    /\ pc[q] = "paso2" => ENABLED EscribirTra(q)
    /\ pc[q] = "firmando" => ENABLED EjecutarOpenssl(q, "ok")
    /\ pc[q] = "leyendo" => ENABLED LeerCms(q)
    /\ pc[q] = "paso4" => ENABLED EnviarWsaa(q)
    /\ pc[q] = "esperando" =>
          \A r \in RespuestasFirma(Ahora) : ENABLED RecibirRespuesta(q, r)

\* C15: calls for different services never block each other: while one call
\* is stalled waiting for the authority's answer, the other call can take
\* its next step, at every step up to its completion.
C15_OtherCallNeverBlocked ==
    \A p, q \in Hilos :
        /\ p # q /\ pc[p] = "esperando"
        /\ pc[q] \notin {"idle", "done"} /\ servicio[q] # servicio[p]
        => PuedeSeguir(q)

\* one call is still waiting for its answer, with nothing cached for its
\* service, and the call for the other service has completed with a ticket
C15_Witness ==
    \E p, q \in Hilos :
        /\ pc[p] = "esperando" /\ pc[q] = "done" /\ resultado[q].ok
        /\ servicio[q] # servicio[p]
        /\ servicio[q] \in DOMAIN tickets_cache
        /\ servicio[p] \notin DOMAIN tickets_cache

\* C16: whenever firmar_tra returns or raises, on the success path and on
\* every failure path, the plaintext request file it wrote has been removed.
C16_SignerRemovesRequestFile ==
    [][\A p \in Hilos :
          pc[p] \in {"firmando", "leyendo"} /\ pc'[p] \in {"paso4", "done"}
              => archivos'.tra = Ausente]_vars

\* C17: when the certificate or the private key is missing at the time a
\* ticket is requested, the call runs no signing command and ends with the
\* distinct error of the missing file (the messages _validar_certificados
\* has for CertificateNotFound and PrivateKeyNotFound).
C17_MissingKeyMaterialReportedFirst ==
    \A p \in Hilos :
        pc[p] # "idle" /\ ~(almacen.cert /\ almacen.key) =>
            /\ firmas[p] = 0
            /\ pc[p] = "done" =>
                  resultado[p].error =
                      IF ~almacen.cert THEN "Certificado no encontrado"
                      ELSE "Clave privada no encontrada"

---------------------------------------------------------------------------
(* Failure kinds as the caller of obtener_ticket_acceso receives them *)

\* the kind of a failed result, in the specification's terms, from what the
\* processing found: the exception it raised and the validator's diagnostic
KindDe(res) ==
    IF res.ok THEN "none"
    ELSE IF res.error = "ParseError" THEN "MalformedResponse"
    ELSE IF res.error = "No se encontro loginCmsReturn" THEN "MissingPayload"
    ELSE IF res.error = "base64" THEN "MalformedPayload"
    ELSE IF res.error # "Error validando respuesta del WSAA" THEN "none"
    ELSE IF res.diag = "expirado" THEN "ExpiredTicket"
    ELSE IF res.diag = "generacion_futura" THEN "FutureGenerationTime"
    ELSE IF res.diag \in DiagIncompleteTicket THEN "IncompleteTicket"
    ELSE "none"

\* what the exception raised to the caller carries
LoQueRecibeElLlamador(res) ==
    [error |-> res.error, codigo |-> res.codigo, desc |-> res.desc,
     reintento |-> res.reintento]

\* C18: a failure is reported with its kind: when a call is about to
\* receive its answer, any two answers that fail for reasons of different
\* kinds (among MalformedResponse, MissingPayload, MalformedPayload,
\* IncompleteTicket, ExpiredTicket, FutureGenerationTime) give the caller
\* different failure results.
C18_FailureKindsDistinguishable ==
    \A p \in DOMAIN pc :
        pc[p] = "esperando" =>
            \A r1, r2 \in Respuestas(Ahora) :
                LET a == ValidarTicket(RecibirWsaa(r1, servicio[p], Ahora))
                    b == ValidarTicket(RecibirWsaa(r2, servicio[p], Ahora))
                IN  /\ KindDe(a) # "none" /\ KindDe(b) # "none"
                    /\ KindDe(a) # KindDe(b)
                    => LoQueRecibeElLlamador(a) # LoQueRecibeElLlamador(b)

---------------------------------------------------------------------------
(* generar_tra on its own *)

MaxHoras == 26

MaxHorasNegativas == 2

\* the horas_validez arguments: negative, zero, the default 12, the cap and
\* values above it
HorasPedidas == (0 - MaxHorasNegativas)..MaxHoras

\* how the openssl x509 subprocess can end: the subject printed, another
\* output format, a non-zero exit, no openssl
SalidasX509 ==
    {X509Ok,
     [X509Ok EXCEPT !.prefijo = "Subject:"],
     [X509Ok EXCEPT !.fin = "CalledProcessError"],
     [X509Ok EXCEPT !.fin = "FileNotFoundError"]}

\* epoch readings in milliseconds, in two parts: 0, 2^32 - 1, 2^32 + 5 and
\* 1793000000000 (October 2026)
EpocasMs == {<<0, 0>>, <<65535, 65535>>, <<65536, 5>>, <<27359008, 51712>>}

\* one call generar_tra(servicio, horas_validez)
LlamarGenerarTra(s, h, sal, ms) ==
    /\ tra' = ConstruirTra(s, h, sal, ms, Ahora, tz_host)
    /\ UNCHANGED <<clock, tz_host, tickets_cache, pc, servicio, firmas, posts,
                   respuesta, resultado, visto, cms_data, archivos, almacen,
                   cl>>
    /\ UNCHANGED app

NextTra ==
    \/ \E s \in ServiciosPedidos, h \in HorasPedidas, sal \in SalidasX509,
          ms \in EpocasMs :
            tra.estado = "sin_llamar" /\ LlamarGenerarTra(s, h, sal, ms)
    \/ Tick

SpecTra == Init /\ [][NextTra]_vars

\* the validity written in a request, in hours
Vigencia(t) == Instante(t.expirationTime) - Instante(t.generationTime)

\* C19: for every catalog service and every validity asked for, the request
\* built has expirationTime - generationTime <= 24 hours; a validity above
\* 24 hours gives exactly 24 hours, and the call is not rejected.
C19_ValidityCappedAt24h ==
    /\ tra.estado = "hecho" =>
          /\ Vigencia(tra) <= 24
          /\ tra.horas > 24 => Vigencia(tra) = 24
          /\ tra.horas <= 24 => Vigencia(tra) = tra.horas
    /\ tra.estado # "sin_llamar" /\ tra.servicio \in SERVICIOS
          => tra.estado = "hecho"

\* a request was built for a validity above 24 hours
C19_Witness ==
    /\ tra.estado = "hecho" /\ tra.horas > 24
    /\ tra.servicio = "remcarneservice"

\* C20: every request built, for every integer validity accepted (zero and
\* negative values included), has expirationTime > generationTime.
C20_ExpirationAfterGeneration ==
    tra.estado = "hecho" =>
        Instante(tra.expirationTime) > Instante(tra.generationTime)

\* C21: the uniqueId of every request built is an integer in 0 .. 2^32 - 1
\* (both parts below 2^16), congruent modulo 2^32 to the epoch reading in
\* milliseconds it was derived from, and the uniqueId written in the request
\* is the one returned to the caller.
C21_UniqueIdWraps32Bits ==
    tra.estado = "hecho" =>
        /\ tra.uniqueId[1] \in 0..(Base - 1)
        /\ tra.uniqueId[2] \in 0..(Base - 1)
        /\ tra.uniqueId[2] = tra.ms[2]
        /\ (tra.ms[1] - tra.uniqueId[1]) % Base = 0
        /\ tra.retorno = tra.uniqueId

\* a request was built at an epoch reading of 2^32 milliseconds or more
C21_Witness ==
    /\ tra.estado = "hecho" /\ tra.ms[1] >= Base
    /\ tra.uniqueId[1] # tra.ms[1]

\* the five elements the request must carry are there
CamposRequeridosPresentes(t) ==
    /\ t.destination # "" /\ t.service # ""
    /\ t.uniqueId = t.retorno
    /\ t.generationTime.fmt = "iso" /\ t.expirationTime.fmt = "iso"

\* openssl x509 ended well and printed "subject=..."
ExtraccionLograda(sal) == sal.fin = "ok" /\ sal.prefijo = "subject="

\* C22: a call for a catalog service builds the request whether or not the
\* subject of the certificate could be extracted; when the extraction fails
\* (tool error or unexpected output) the source element is left out and all
\* required elements are present; when it succeeds the source element
\* carries the extracted subject.
C22_SourceOptional ==
    /\ tra.estado # "sin_llamar" /\ tra.servicio \in SERVICIOS
          => tra.estado = "hecho" /\ CamposRequeridosPresentes(tra)
    /\ tra.estado = "hecho" =>
          IF ExtraccionLograda(tra.x509)
          THEN tra.source = tra.x509.resto
          ELSE tra.source = ""

\* a request was built after openssl x509 printed an unexpected format
C22_Witness ==
    /\ tra.estado = "hecho"
    /\ tra.x509.fin = "ok" /\ tra.x509.prefijo # "subject="
    /\ tra.source = ""

\* C23: parsing the request back gives what was encoded: the service, the
\* uniqueId, and generationTime and expirationTime as instants, read with
\* the offset written in the text, equal to the instants of the readings
\* `ahora` and `expiracion` of the host's clock.
C23_RequestRoundTrip ==
    tra.estado = "hecho" =>
        /\ tra.service = tra.servicio
        /\ tra.uniqueId = tra.retorno
        /\ Instante(tra.generationTime) = tra.ahora - tra.zona
        /\ Instante(tra.expirationTime) = tra.expiracion - tra.zona

---------------------------------------------------------------------------
(* The remitos application: users, the remitos table, the AFIP service *)

\* the ids the remitos table gives out
Ids == {1, 2}

Cuits == {"20123456789", "20999999999"}

\* the users table: one user per role, and an operator that was deactivated
Usuarios == {"admin", "operador", "consulta", "inactivo"}

Usuario(u) ==
    CASE u = "admin" ->
           [role |-> "admin", cuit_empresa |-> "", is_active |-> TRUE]
      [] u = "operador" ->
           [role |-> "operador", cuit_empresa |-> "20123456789",
            is_active |-> TRUE]
      [] u = "consulta" ->
           [role |-> "consulta", cuit_empresa |-> "20123456789",
            is_active |-> TRUE]
      [] OTHER ->
           [role |-> "operador", cuit_empresa |-> "20123456789",
            is_active |-> FALSE]

\* what a request carries as Authorization: nothing, a bearer token that
\* does not verify, or the valid token of a user
Credenciales == {"ninguna", "invalida"} \cup Usuarios

\* User.has_permission
HasPermission(role, permission) ==
    CASE role = "admin" ->
           permission \in {"create_remito", "read_remito", "update_remito",
                           "delete_remito", "send_afip", "read_afip",
                           "manage_users", "read_all_remitos"}
      [] role = "operador" ->
           permission \in {"create_remito", "read_remito", "update_remito",
                           "send_afip", "read_afip"}
      [] role = "consulta" -> permission \in {"read_remito", "read_afip"}
      [] OTHER -> FALSE

\* Variant: every role may act on every CUIT.
CanAccessRemito_SinMirarCuit(u, remito_cuit) == TRUE

\* User.can_access_remito
CanAccessRemito(u, remito_cuit) ==
    IF Usuario(u).role = "admin" THEN TRUE
    ELSE Usuario(u).cuit_empresa = remito_cuit

\* the dependency require_permission(permission): 0 when the request goes
\* on to the handler, else the status of the HTTPException raised by
\* HTTPBearer (no header), verify_token, get_current_user or the checker
RequirePermission(cred, permission) ==
    IF cred = "ninguna" THEN 403
    ELSE IF cred = "invalida" THEN 401
    ELSE IF ~Usuario(cred).is_active THEN 400
    ELSE IF ~HasPermission(Usuario(cred).role, permission) THEN 403
    ELSE 0

\* a row as crear_remito stores it: estado takes the column default
NuevoRemito(cuit) ==
    [emisor_cuit |-> cuit, estado |-> "borrador", cae |-> "",
     fecha_vencimiento_cae |-> 0]

\* the id the database gives the next row
SiguienteId(db) ==
    IF DOMAIN db = {} THEN 1
    ELSE (CHOOSE m \in DOMAIN db : \A k \in DOMAIN db : k <= m) + 1

\* the fields a RemitoUpdate can carry that the table of the model keeps;
\* "sin_cambio" is an unset field
Cambios == [emisor_cuit : Cuits \cup {"sin_cambio"}]

\* actualizar_remito: setattr for every field that was set
ActualizarFila(r, cambios) ==
    [r EXCEPT
       !.emisor_cuit = IF cambios.emisor_cuit = "sin_cambio" THEN @
                       ELSE cambios.emisor_cuit]

\* days from today to the expiry of a simulated CAE
DiasVencimientoCae == 10

\* what AFIPRemitoService finds when asked: the client was built (the
\* certificate files exist), obtener_ticket_remcarne returned a ticket, and
\* the CAE the authorization draws
EntornosAfip ==
    {[cliente |-> TRUE, ticket |-> TRUE, cae |-> "cae1"],
     [cliente |-> TRUE, ticket |-> FALSE, cae |-> ""],
     [cliente |-> FALSE, ticket |-> FALSE, cae |-> ""]}

\* AFIPRemitoService.generar_remito_electronico
GenerarRemitoElectronico(ent) ==
    IF ~ent.cliente
    THEN [success |-> FALSE, codigo |-> "CERT_ERROR", cae |-> "",
          fecha_vencimiento_cae |-> 0]
    ELSE IF ~ent.ticket
    THEN [success |-> FALSE, codigo |-> "TICKET_ERROR", cae |-> "",
          fecha_vencimiento_cae |-> 0]
    ELSE [success |-> TRUE, codigo |-> "", cae |-> ent.cae,
          fecha_vencimiento_cae |-> DiasVencimientoCae]

\* enviar_remito_afip, lines 82-88: what stops the send before AFIP is
\* called, or "" when the remito is in borrador
VerificarEnvio(db, id) ==
    IF id \notin DOMAIN db THEN "REMITO_NOT_FOUND"
    ELSE IF db[id].estado # "borrador" THEN "INVALID_STATE"
    ELSE ""

\* Variant: only a success touches the row.
AplicarResultadoAfip_SoloExito(r, res) ==
    IF res.success
    THEN [r EXCEPT !.estado = "autorizado", !.cae = res.cae,
                   !.fecha_vencimiento_cae = res.fecha_vencimiento_cae]
    ELSE r

\* enviar_remito_afip, lines 107-132: the fields it sets on the row
AplicarResultadoAfip(r, res) ==
    IF res.success
    THEN [r EXCEPT !.estado = "autorizado", !.cae = res.cae,
                   !.fecha_vencimiento_cae =
                       IF res.fecha_vencimiento_cae # 0
                       THEN res.fecha_vencimiento_cae ELSE @]
    ELSE [r EXCEPT !.estado = "rechazado"]

\* Variant: the estado of the remito is not looked at before sending.
EnviarEnDb_SinMirarEstado(db, id, ent) ==
    IF id \notin DOMAIN db
    THEN [db |-> db, success |-> FALSE, codigo |-> "REMITO_NOT_FOUND",
          cae |-> "", afip |-> FALSE]
    ELSE LET res == GenerarRemitoElectronico(ent) IN
         [db |-> [db EXCEPT ![id] = AplicarResultadoAfip(@, res)],
          success |-> res.success, codigo |-> res.codigo, cae |-> res.cae,
          afip |-> TRUE]

\* RemitoService.enviar_remito_afip run on its own session from the query
\* to the commit: the table afterwards, what it returns, and whether
\* generar_remito_electronico was called
EnviarEnDb(db, id, ent) ==
    IF VerificarEnvio(db, id) # ""
    THEN [db |-> db, success |-> FALSE, codigo |-> VerificarEnvio(db, id),
          cae |-> "", afip |-> FALSE]
    ELSE LET res == GenerarRemitoElectronico(ent) IN
         [db |-> [db EXCEPT ![id] = AplicarResultadoAfip(@, res)],
          success |-> res.success, codigo |-> res.codigo, cae |-> res.cae,
          afip |-> TRUE]

\* the status the endpoint enviar_remito_afip answers for a service result
StatusDeEnvio(ret) ==
    IF ret.success THEN 200
    ELSE IF ret.codigo = "REMITO_NOT_FOUND" THEN 404
    ELSE IF ret.codigo = "INVALID_STATE" THEN 400
    ELSE 500

---------------------------------------------------------------------------
(* The HTTP endpoints and the Celery tasks, one request or task at a time *)

\* the state of the ticket client, which these requests never touch
fuera == <<clock, tz_host, tickets_cache, pc, servicio, firmas, posts,
           respuesta, resultado, visto, cms_data, archivos, almacen, cl, tra>>

Pedido(op, cred, id, cuit, status, afip) ==
    [op |-> op, cred |-> cred, id |-> id, cuit |-> cuit, status |-> status,
     afip |-> afip]

\* the task a .delay() call puts on the queue
Tarea(tipo, ids, user) == [tipo |-> tipo, ids |-> ids, user |-> user]

\* the id lists a batch request carries
ListasDeIds == {<<a>> : a \in Ids} \cup {<<a, b>> : a \in Ids, b \in Ids}

\* the checks of the endpoints that send: permission, existence, CUIT
VerificarAcceso(db, cred, id) ==
    IF RequirePermission(cred, "send_afip") # 0
    THEN RequirePermission(cred, "send_afip")
    ELSE IF id \notin DOMAIN db THEN 404
    ELSE IF ~CanAccessRemito(cred, db[id].emisor_cuit) THEN 403
    ELSE 0

\* the loop of enviar_lote_remitos_afip_endpoint over the ids: the status
\* of the first id that fails its check, from position i on
RECURSIVE VerificarLista(_, _, _, _)
VerificarLista(db, cred, ids, i) ==
    IF i > Len(ids) THEN 0
    ELSE IF ids[i] \notin DOMAIN db THEN 404
    ELSE IF ~CanAccessRemito(cred, db[ids[i]].emisor_cuit) THEN 403
    ELSE VerificarLista(db, cred, ids, i + 1)

\* POST /remitos/
CrearRemito(cred, cuit) ==
    /\ SiguienteId(remitos) \in Ids
    /\ LET st == RequirePermission(cred, "create_remito") IN
       IF st # 0
       THEN /\ ultimo' = Pedido("crear", cred, 0, cuit, st, FALSE)
            /\ UNCHANGED remitos
       ELSE IF ~CanAccessRemito(cred, cuit)
       THEN /\ ultimo' = Pedido("crear", cred, 0, cuit, 403, FALSE)
            /\ UNCHANGED remitos
       ELSE /\ remitos' = [k \in DOMAIN remitos \cup {SiguienteId(remitos)} |->
                             IF k \in DOMAIN remitos THEN remitos[k]
                             ELSE NuevoRemito(cuit)]
            /\ ultimo' = Pedido("crear", cred, SiguienteId(remitos), cuit,
                                201, FALSE)
    /\ UNCHANGED <<cola, hilos, lote>>
    /\ UNCHANGED fuera

\* PUT /remitos/{remito_id}
ActualizarRemito(cred, id, cambios) ==
    /\ IF id \notin DOMAIN remitos
       THEN /\ ultimo' = Pedido("actualizar", cred, id, "", 404, FALSE)
            /\ UNCHANGED remitos
       ELSE /\ remitos' = [remitos EXCEPT ![id] = ActualizarFila(@, cambios)]
            /\ ultimo' = Pedido("actualizar", cred, id,
                                remitos[id].emisor_cuit, 200, FALSE)
    /\ UNCHANGED <<cola, hilos, lote>>
    /\ UNCHANGED fuera

\* DELETE /remitos/{remito_id}
EliminarRemito(cred, id) ==
    /\ IF id \notin DOMAIN remitos
       THEN /\ ultimo' = Pedido("eliminar", cred, id, "", 404, FALSE)
            /\ UNCHANGED remitos
       ELSE /\ remitos' = [k \in DOMAIN remitos \ {id} |-> remitos[k]]
            /\ ultimo' = Pedido("eliminar", cred, id,
                                remitos[id].emisor_cuit, 204, FALSE)
    /\ UNCHANGED <<cola, hilos, lote>>
    /\ UNCHANGED fuera

\* POST /remitos/{remito_id}/enviar-afip
EnviarRemitoAfip(cred, id, ent) ==
    /\ LET st == VerificarAcceso(remitos, cred, id)
           cuit == IF id \in DOMAIN remitos THEN remitos[id].emisor_cuit
                   ELSE ""
       IN IF st # 0
          THEN /\ ultimo' = Pedido("enviar", cred, id, cuit, st, FALSE)
               /\ UNCHANGED remitos
          ELSE LET ret == EnviarEnDb(remitos, id, ent) IN
               /\ remitos' = ret.db
               /\ ultimo' = Pedido("enviar", cred, id, cuit,
                                   StatusDeEnvio(ret), ret.afip)
    /\ UNCHANGED <<cola, hilos, lote>>
    /\ UNCHANGED fuera

\* POST /async/remitos/{remito_id}/enviar-afip
EnviarRemitoAfipAsyncEndpoint(cred, id) ==
    /\ cola = {}
    /\ LET st == VerificarAcceso(remitos, cred, id)
           cuit == IF id \in DOMAIN remitos THEN remitos[id].emisor_cuit
                   ELSE ""
       IN IF st # 0
          THEN /\ ultimo' = Pedido("enviar_async", cred, id, cuit, st, FALSE)
               /\ UNCHANGED cola
          ELSE /\ cola' = cola \cup {Tarea("uno", <<id>>, cred)}
               /\ ultimo' = Pedido("enviar_async", cred, id, cuit, 200, FALSE)
    /\ UNCHANGED <<remitos, hilos, lote>>
    /\ UNCHANGED fuera

\* POST /async/remitos/lote/enviar-afip
EnviarLoteRemitosAfipEndpoint(cred, ids) ==
    /\ cola = {}
    /\ LET st0 == RequirePermission(cred, "send_afip")
           st == IF st0 # 0 THEN st0
                 ELSE VerificarLista(remitos, cred, ids, 1)
       IN IF st # 0
          THEN /\ ultimo' = Pedido("enviar_lote", cred, ids[1], "", st, FALSE)
               /\ UNCHANGED cola
          ELSE /\ cola' = cola \cup {Tarea("lote", ids, cred)}
               /\ ultimo' = Pedido("enviar_lote", cred, ids[1], "", 200, FALSE)
    /\ UNCHANGED <<remitos, hilos, lote>>
    /\ UNCHANGED fuera

\* the task enviar_remito_afip_async, run by a worker
EnviarRemitoAfipAsync(t, ent) ==
    /\ t \in cola
    /\ t.tipo = "uno"
    /\ cola' = cola \ {t}
    /\ remitos' = EnviarEnDb(remitos, t.ids[1], ent).db
    /\ UNCHANGED <<ultimo, hilos, lote>>
    /\ UNCHANGED fuera

\* what happens while the batch task handles one id: update_state raises
\* before the remito is touched, or the send runs in the given AFIP
\* environment
Sucesos ==
    {[excepcion |-> FALSE, ent |-> e] : e \in EntornosAfip}
    \cup {[excepcion |-> TRUE,
           ent |-> [cliente |-> FALSE, ticket |-> FALSE, cae |-> ""]]}

\* Variant: an exception on one remito ends the loop.
TrasElItem_CortaEnExcepcion(l, suceso) ==
    IF suceso.excepcion \/ Len(l.procesados) = Len(l.ids)
    THEN [l EXCEPT !.estado = "terminado",
                   !.success_count = Len(l.resultados),
                   !.error_count = Len(l.errores)]
    ELSE l

\* enviar_lote_remitos_afip after an iteration: the loop goes on while ids
\* are left, whatever happened; after the last one the task returns
TrasElItem(l, suceso) ==
    IF Len(l.procesados) = Len(l.ids)
    THEN [l EXCEPT !.estado = "terminado",
                   !.success_count = Len(l.resultados),
                   !.error_count = Len(l.errores)]
    ELSE l

\* one iteration of the loop of enviar_lote_remitos_afip on the id at
\* position Len(l.procesados) + 1
ProcesarItem(db, l, suceso) ==
    LET remito_id == l.ids[Len(l.procesados) + 1]
        visto_ == [l EXCEPT !.procesados = Append(@, remito_id)]
    IN IF suceso.excepcion
       THEN [db |-> db,
             lote |-> [visto_ EXCEPT !.errores =
                          Append(@, [remito_id |-> remito_id,
                                     error |-> "excepcion"])]]
       ELSE LET ret == EnviarEnDb(db, remito_id, suceso.ent) IN
            IF ret.success
            THEN [db |-> ret.db,
                  lote |-> [visto_ EXCEPT !.resultados =
                               Append(@, [remito_id |-> remito_id,
                                          cae |-> ret.cae])]]
            ELSE [db |-> ret.db,
                  lote |-> [visto_ EXCEPT !.errores =
                               Append(@, [remito_id |-> remito_id,
                                          error |-> ret.codigo])]]

\* the record of a batch task that has just started on the list ids
LoteIniciado(ids) ==
    [SinLote EXCEPT !.estado = "corriendo", !.ids = ids, !.total = Len(ids)]

\* a worker takes the task enviar_lote_remitos_afip from the queue
EnviarLoteRemitosAfipInicio(t) ==
    /\ t \in cola
    /\ t.tipo = "lote"
    /\ lote.estado # "corriendo"
    /\ cola' = cola \ {t}
    /\ lote' = LoteIniciado(t.ids)
    /\ UNCHANGED <<remitos, ultimo, hilos>>
    /\ UNCHANGED fuera

\* the task enviar_lote_remitos_afip handles its next id
EnviarLoteRemitosAfipItem(suceso) ==
    /\ lote.estado = "corriendo"
    /\ Len(lote.procesados) < Len(lote.ids)
    /\ LET r == ProcesarItem(remitos, lote, suceso) IN
       /\ remitos' = r.db
       /\ lote' = TrasElItem(r.lote, suceso)
    /\ UNCHANGED <<ultimo, cola, hilos>>
    /\ UNCHANGED fuera

\* the loop of enviar_lote_remitos_afip from the record l to its return
RECURSIVE CorrerLote(_, _, _)
CorrerLote(db, l, sucesos) ==
    IF l.estado = "terminado" THEN [db |-> db, lote |-> l]
    ELSE LET suceso == sucesos[Len(l.procesados) + 1]
             r == ProcesarItem(db, l, suceso)
         IN CorrerLote(r.db, TrasElItem(r.lote, suceso), sucesos)

\* the task enviar_lote_remitos_afip, run by a worker from start to return
\* with no request in between; what it returns goes to the result backend,
\* which no endpoint modelled here reads
EnviarLoteRemitosAfip(t, sucesos) ==
    /\ t \in cola
    /\ t.tipo = "lote"
    /\ cola' = cola \ {t}
    /\ remitos' = CorrerLote(remitos, LoteIniciado(t.ids), sucesos).db
    /\ UNCHANGED <<ultimo, hilos, lote>>
    /\ UNCHANGED fuera

InitRemitos == Init /\ tz_host = 0

NextRemitos ==
    \/ \E cred \in Credenciales, cuit \in Cuits : CrearRemito(cred, cuit)
    \/ \E cred \in Credenciales, id \in Ids, cambios \in Cambios :
          ActualizarRemito(cred, id, cambios)
    \/ \E cred \in Credenciales, id \in Ids : EliminarRemito(cred, id)
    \/ \E cred \in Credenciales, id \in Ids, ent \in EntornosAfip :
          EnviarRemitoAfip(cred, id, ent)
    \/ \E cred \in Credenciales, id \in Ids :
          EnviarRemitoAfipAsyncEndpoint(cred, id)
    \/ \E cred \in Credenciales, ids \in ListasDeIds :
          EnviarLoteRemitosAfipEndpoint(cred, ids)
    \/ \E t \in cola, ent \in EntornosAfip : EnviarRemitoAfipAsync(t, ent)
    \/ \E t \in cola : \E sucesos \in [1..Len(t.ids) -> Sucesos] :
          EnviarLoteRemitosAfip(t, sucesos)

SpecRemitos == InitRemitos /\ [][NextRemitos]_vars

---------------------------------------------------------------------------
(* Properties of the remitos endpoints *)

\* C24: enviar_remito_afip on a remito whose estado is not 'borrador' fails
\* with INVALID_STATE, which the endpoint answers with 400; the AFIP service
\* is not called and the remito keeps its estado, cae and
\* fecha_vencimiento_cae.
C24_WrongStateRejected ==
    [][/\ (/\ ultimo'.op = "enviar"
           /\ ultimo'.id \in DOMAIN remitos
           /\ remitos[ultimo'.id].estado # "borrador"
           /\ VerificarAcceso(remitos, ultimo'.cred, ultimo'.id) = 0
           /\ \E ent \in EntornosAfip :
                 EnviarRemitoAfip(ultimo'.cred, ultimo'.id, ent))
          => /\ ultimo'.status = 400
             /\ ~ultimo'.afip
             /\ remitos' = remitos
       /\ \A t \in cola \ cola' :
             (/\ t.tipo = "uno"
              /\ t.ids[1] \in DOMAIN remitos
              /\ remitos[t.ids[1]].estado # "borrador"
              /\ \E ent \in EntornosAfip : EnviarRemitoAfipAsync(t, ent))
             => /\ remitos' = remitos
                /\ \A ent \in EntornosAfip :
                      /\ EnviarEnDb(remitos, t.ids[1], ent).codigo
                            = "INVALID_STATE"
                      /\ ~EnviarEnDb(remitos, t.ids[1], ent).afip]_vars

C24_Witness ==
    /\ ultimo.op = "enviar"
    /\ ultimo.status = 400
    /\ ultimo.id \in DOMAIN remitos
    /\ remitos[ultimo.id].estado = "autorizado"
    /\ remitos[ultimo.id].cae # ""

\* the user u is not an administrator and the CUIT is not their company's
Ajeno(u, cuit) ==
    /\ Usuario(u).role # "admin"
    /\ Usuario(u).cuit_empresa # cuit

\* the request left the table and the queue as they were
NadaCambia ==
    /\ remitos' = remitos
    /\ cola' = cola
    /\ ~ultimo'.afip

SinAutenticar == {"ninguna", "invalida"}

\* the step is a request to an endpoint that creates, updates, deletes or
\* sends a remito, made with the credential and id recorded in ultimo'
PedidoQueEscribe ==
    \/ ultimo'.op = "crear" /\ CrearRemito(ultimo'.cred, ultimo'.cuit)
    \/ /\ ultimo'.op = "actualizar"
       /\ \E cambios \in Cambios :
             ActualizarRemito(ultimo'.cred, ultimo'.id, cambios)
    \/ ultimo'.op = "eliminar" /\ EliminarRemito(ultimo'.cred, ultimo'.id)
    \/ /\ ultimo'.op = "enviar"
       /\ \E ent \in EntornosAfip :
             EnviarRemitoAfip(ultimo'.cred, ultimo'.id, ent)
    \/ /\ ultimo'.op = "enviar_async"
       /\ EnviarRemitoAfipAsyncEndpoint(ultimo'.cred, ultimo'.id)
    \/ /\ ultimo'.op = "enviar_lote"
       /\ \E ids \in ListasDeIds :
             EnviarLoteRemitosAfipEndpoint(ultimo'.cred, ids)

\* C26: a request without valid authentication to an endpoint that
\* creates, updates, deletes or sends a remito is rejected (401 or 403) and
\* leaves the stored remitos and the queue unchanged.
C26_UnauthenticatedChangesNothing ==
    [][(ultimo'.cred \in SinAutenticar /\ PedidoQueEscribe)
          => /\ ultimo'.status \in {401, 403}
             /\ remitos' = remitos
             /\ cola' = cola]_vars

\* the send cannot reach AFIP: the client was not built because the
\* certificate files are missing, or no ticket for remcarneservice came back
FallaLocal(ent) == ~ent.cliente \/ ~ent.ticket

\* C27: when a send fails for a local reason (no AFIP client, or no access
\* ticket) the remito stays in 'borrador' and can be sent again; estado
\* becomes 'rechazado' only when AFIP rejected the remito.
C27_LocalFailureKeepsBorrador ==
    [][\A ent \in EntornosAfip :
          (/\ FallaLocal(ent)
           /\ ultimo'.op = "enviar"
           /\ ultimo'.id \in DOMAIN remitos
           /\ remitos[ultimo'.id].estado = "borrador"
           /\ VerificarAcceso(remitos, ultimo'.cred, ultimo'.id) = 0
           /\ EnviarRemitoAfip(ultimo'.cred, ultimo'.id, ent))
          => /\ remitos'[ultimo'.id].estado = "borrador"
             /\ VerificarEnvio(remitos', ultimo'.id) = ""]_vars

---------------------------------------------------------------------------
(* Concurrent sends: enviar_remito_afip run by the endpoint and by a Celery
   worker, each on its own database session *)

\* who runs RemitoService.enviar_remito_afip: the process serving the
\* synchronous endpoint and a worker running enviar_remito_afip_async
Trabajadores == {"endpoint", "tarea"}

\* the AFIP environments of the concurrent runs: each authorization draws
\* its own CAE
EntornosConcurrentes ==
    EntornosAfip \cup {[cliente |-> TRUE, ticket |-> TRUE, cae |-> "cae2"]}

SinRespuestaAfip ==
    [success |-> FALSE, codigo |-> "", cae |-> "", fecha_vencimiento_cae |-> 0]

\* lines 74-88: the session loads the row and checks its estado
ConsultarRemito(w, id) ==
    /\ w \notin DOMAIN hilos
    /\ hilos' = [k \in DOMAIN hilos \cup {w} |->
                   IF k # w THEN hilos[k]
                   ELSE [pc |-> IF VerificarEnvio(remitos, id) = ""
                                THEN "leido" ELSE "fin",
                         id |-> id,
                         codigo |-> VerificarEnvio(remitos, id),
                         res |-> SinRespuestaAfip,
                         enviado |-> FALSE]]
    /\ UNCHANGED <<remitos, ultimo, cola, lote>>
    /\ UNCHANGED fuera

\* line 105: the call to generar_remito_electronico, made from what the
\* session loaded
LlamarAfip(w, ent) ==
    /\ w \in DOMAIN hilos
    /\ hilos[w].pc = "leido"
    /\ hilos' = [hilos EXCEPT ![w].pc = "respondido",
                              ![w].res = GenerarRemitoElectronico(ent),
                              ![w].codigo = GenerarRemitoElectronico(ent).codigo,
                              ![w].enviado = ent.cliente /\ ent.ticket]
    /\ UNCHANGED <<remitos, ultimo, cola, lote>>
    /\ UNCHANGED fuera

\* lines 107-132: the attributes set on the loaded object are written to
\* the row by commit, whatever the row holds by then
ConfirmarEnvio(w) ==
    /\ w \in DOMAIN hilos
    /\ hilos[w].pc = "respondido"
    /\ remitos' = [remitos EXCEPT ![hilos[w].id] =
                      AplicarResultadoAfip(@, hilos[w].res)]
    /\ hilos' = [hilos EXCEPT ![w].pc = "fin"]
    /\ UNCHANGED <<ultimo, cola, lote>>
    /\ UNCHANGED fuera

NextEnvios ==
    \/ \E cuit \in Cuits : CrearRemito("admin", cuit)
    \/ \E id \in Ids, cambios \in Cambios :
          ActualizarRemito("admin", id, cambios)
    \/ \E w \in Trabajadores, id \in Ids : ConsultarRemito(w, id)
    \/ \E w \in Trabajadores, ent \in EntornosConcurrentes : LlamarAfip(w, ent)
    \/ \E w \in Trabajadores : ConfirmarEnvio(w)

SpecEnvios == InitRemitos /\ [][NextEnvios]_vars

\* the runs that submitted the remito id to AFIP
Envios(id) == {w \in DOMAIN hilos : hilos[w].id = id /\ hilos[w].enviado}

\* C28: under every interleaving of concurrent sends of one remito, the
\* remito is submitted to AFIP at most once, and a CAE stored for it is
\* never overwritten by a second authorization.
C28_SentAtMostOnce ==
    /\ [](\A id \in Ids : Cardinality(Envios(id)) <= 1)
    /\ [][\A id \in DOMAIN remitos :
             remitos[id].cae # "" => remitos'[id].cae = remitos[id].cae]_vars

\* a remito in 'autorizado' has a CAE, one in 'borrador' or 'rechazado' none
CaeSegunEstado(r) ==
    /\ r.estado \in {"borrador", "autorizado", "rechazado"}
    /\ r.estado = "autorizado" <=> r.cae # ""

\* C29: a remito is created in 'borrador'; the only estado transitions are
\* borrador -> autorizado and borrador -> rechazado; 'autorizado' and
\* 'rechazado' are never left by create, update and send operations; and in
\* every reachable state an 'autorizado' remito has a non-empty cae while a
\* 'borrador' or 'rechazado' one has none.
C29_Lifecycle ==
    /\ [](\A id \in DOMAIN remitos : CaeSegunEstado(remitos[id]))
    /\ [][\A id \in DOMAIN remitos' :
             IF id \notin DOMAIN remitos
             THEN remitos'[id].estado = "borrador"
             ELSE \/ remitos'[id].estado = remitos[id].estado
                  \/ /\ remitos[id].estado = "borrador"
                     /\ remitos'[id].estado \in {"autorizado", "rechazado"}]_vars

---------------------------------------------------------------------------
(* The batch task enviar_lote_remitos_afip, one id at a time *)

NextLote ==
    \/ \E cuit \in Cuits : CrearRemito("admin", cuit)
    \/ \E id \in Ids : EliminarRemito("admin", id)
    \/ \E ids \in ListasDeIds : EnviarLoteRemitosAfipEndpoint("admin", ids)
    \/ \E t \in cola : EnviarLoteRemitosAfipInicio(t)
    \/ \E suceso \in Sucesos : EnviarLoteRemitosAfipItem(suceso)

SpecLote == InitRemitos /\ [][NextLote]_vars

\* how many entries of the list q are about the remito id
RECURSIVE Veces(_, _)
Veces(q, id) ==
    IF q = << >> THEN 0
    ELSE (IF Head(q).remito_id = id THEN 1 ELSE 0) + Veces(Tail(q), id)

\* how many positions of the id list q hold id
Posiciones(q, id) == Cardinality({i \in 1..Len(q) : q[i] = id})

\* the ids handled so far are the first ones of the input list, in order
EnOrden(l) ==
    /\ Len(l.procesados) <= Len(l.ids)
    /\ \A i \in 1..Len(l.procesados) : l.procesados[i] = l.ids[i]

\* the counts of a finished batch
CuentasCierran(l) ==
    /\ l.procesados = l.ids
    /\ l.total = Len(l.ids)
    /\ l.success_count = Len(l.resultados)
    /\ l.error_count = Len(l.errores)
    /\ l.success_count + l.error_count = l.total

=============================================================================
